---- MODULE Spec2Model ----
(***************************************************************************)
(* Model of telegram_bot.py: the message handler handle_message and the    *)
(* extraction/resolution routine parse_event_from_text_gemini.             *)
(*                                                                         *)
(* Representation.                                                         *)
(*  - A text is a sequence of one-character strings.  In a raw response    *)
(*    of the generation service the character "J" stands for the           *)
(*    serialisation of one JSON document (given beside the text, as doc);  *)
(*    every other character is itself.  A serialised JSON document never   *)
(*    starts or ends with a backtick, so the fence tests of the code see   *)
(*    "J" exactly as they would see the document's text.                   *)
(*  - A JSON scalar is a record [t, s, n]; Python's None is JNull.         *)
(*  - A datetime is a number of minutes; an optional datetime or           *)
(*    timedelta is a record [some, v].                                     *)
(*  - dateparser is a library outside the repository: what it returns for  *)
(*    the start string, the end string and (relative to datetime.min) the  *)
(*    duration string is an input of the request, the record dp.           *)
(***************************************************************************)
EXTENDS Integers, Sequences, FiniteSets, TLC

VARIABLES pc, outcome, result, calls, response, llm_output_text

vars == <<pc, outcome, result, calls, response, llm_output_text>>

\* ------------------------------------------------------------------ bounds
NumRequests == 2
MaxDurValue == 2
MaxReminderHalfHours == 4

Requests == 1..NumRequests

\* ------------------------------------------------------------- JSON values
JNull == [t |-> "null", s |-> <<>>, n |-> 0]
JStr(s) == [t |-> "str", s |-> s, n |-> 0]
JInt(n) == [t |-> "int", s |-> <<>>, n |-> n]

\* Python truthiness of a decoded JSON scalar: None, "" and 0 are falsy.
Truthy(v) == (v.t = "str" /\ v.s # <<>>) \/ (v.t = "int" /\ v.n # 0)

None == [some |-> FALSE, v |-> 0]
Some(x) == [some |-> TRUE, v |-> x]

\* A decoded JSON document: an object (obj maps its keys), or another value,
\* of which only the kind and the truthiness matter to the code.
JObject(f) == [kind |-> "object", truthy |-> (DOMAIN f # {}), obj |-> f]
JOther(k, b) == [kind |-> k, truthy |-> b, obj |-> <<>>]

\* ---------------------------------------------------------------- strings
Whitespace == {" ", "\n"}

RECURSIVE lstrip(_)
lstrip(s) == IF s # <<>> /\ Head(s) \in Whitespace THEN lstrip(Tail(s)) ELSE s

RECURSIVE rstrip(_)
rstrip(s) ==
    IF s # <<>> /\ s[Len(s)] \in Whitespace
    THEN rstrip(SubSeq(s, 1, Len(s) - 1))
    ELSE s

strip(s) == rstrip(lstrip(s))

startswith(s, p) == Len(s) >= Len(p) /\ SubSeq(s, 1, Len(p)) = p
endswith(s, p) == Len(s) >= Len(p) /\ SubSeq(s, Len(s) - Len(p) + 1, Len(s)) = p

\* The backtick character (the module's own syntax cannot quote it).
BT == "backtick"

FenceJson == <<BT, BT, BT, "j", "s", "o", "n">>
Fence == <<BT, BT, BT>>

\* Lines 131-135: drop a leading fence with its json tag, then a trailing
\* fence, then strip.
StripLeadingFence(t) ==
    IF startswith(t, FenceJson) THEN SubSeq(t, 8, Len(t)) ELSE t

StripTrailingFence(t) ==
    IF endswith(t, Fence) THEN SubSeq(t, 1, Len(t) - 3) ELSE t

StripFences(t) == strip(StripTrailingFence(StripLeadingFence(t)))

\* json.loads: the text must be exactly one JSON document (json.loads itself
\* tolerates surrounding whitespace); anything else is a JSONDecodeError.
JsonLoads(t, doc) ==
    IF strip(t) = <<"J">> THEN [ok |-> TRUE, value |-> doc]
    ELSE [ok |-> FALSE, value |-> JOther("null", FALSE)]

\* --------------------------------------------------- the duration pattern
DigitChars == <<"0", "1", "2", "3", "4", "5", "6", "7", "8", "9">>

IsDigit(c) == \E i \in 1..10 : DigitChars[i] = c
DigitVal(c) == (CHOOSE i \in 1..10 : DigitChars[i] = c) - 1

\* int() of a run of decimal digits.
RECURSIVE ToInt(_)
ToInt(ds) ==
    IF ds = <<>> THEN 0
    ELSE 10 * ToInt(SubSeq(ds, 1, Len(ds) - 1)) + DigitVal(ds[Len(ds)])

\* Length of the longest prefix of s made of digits: what \d+ consumes.
RECURSIVE DigitRun(_)
DigitRun(s) ==
    IF s # <<>> /\ IsDigit(Head(s)) THEN 1 + DigitRun(Tail(s)) ELSE 0

LowerChar(c) ==
    CASE c = "H" -> "h" [] c = "O" -> "o" [] c = "U" -> "u" [] c = "R" -> "r"
      [] c = "M" -> "m" [] c = "I" -> "i" [] c = "N" -> "n" [] c = "T" -> "t"
      [] c = "E" -> "e" [] c = "S" -> "s" [] OTHER -> c

lower(s) == [i \in 1..Len(s) |-> LowerChar(s[i])]

\* The alternatives of the unit group, in the order the pattern tries them.
UnitAlternatives ==
    << <<"h", "o", "u", "r">>, <<"h", "r">>, <<"h">>,
       <<"m", "i", "n", "u", "t", "e">>, <<"m", "i", "n">>, <<"m">> >>

HourUnits == {UnitAlternatives[1], UnitAlternatives[2], UnitAlternatives[3]}
MinuteUnits == {UnitAlternatives[4], UnitAlternatives[5], UnitAlternatives[6]}

NoMatch == [matched |-> FALSE, value |-> 0, unit |-> <<>>]

\* re.match(r"(\d+)\s*(hour|hr|h|minute|min|m)s?", s, re.IGNORECASE): anchored
\* at the start of s only; the trailing s? always succeeds, so the first
\* alternative that is a prefix of the rest is the unit.
duration_match(s) ==
    LET k == DigitRun(s)
        rest == lower(lstrip(SubSeq(s, k + 1, Len(s))))
        hits == {i \in 1..Len(UnitAlternatives) : startswith(rest, UnitAlternatives[i])}
    IN  IF k = 0 \/ hits = {} THEN NoMatch
        ELSE [matched |-> TRUE,
              value |-> ToInt(SubSeq(s, 1, k)),
              unit |-> UnitAlternatives[CHOOSE i \in hits : \A j \in hits : i <= j]]

\* ---------------------------------------------------------- resolution
Get(data, key) == IF key \in DOMAIN data.obj THEN data.obj[key] ELSE JNull

EventTitle == JStr(<<"E", "v", "e", "n", "t">>)

AllNone ==
    [title |-> JNull, start_dt |-> None, end_dt |-> None,
     location |-> JNull, reminder |-> JNull]

\* Lines 175-186: the start and the end, when their strings are truthy.
ParseStart(data, dp) == IF Truthy(Get(data, "start_time_str")) THEN dp.start ELSE None
ParseEnd(data, dp) == IF Truthy(Get(data, "end_time_str")) THEN dp.end ELSE None

\* Mutant of StrictDurationEnd: every unit counted in minutes.
StrictDurationEnd_AllMinutes(start_dt, end_dt, m) ==
    IF m.unit \in HourUnits \cup MinuteUnits THEN Some(start_dt.v + m.value)
    ELSE end_dt

\* Lines 192-199: the end the strict pattern gives, or end_dt unchanged.
StrictDurationEnd(start_dt, end_dt, m) ==
    IF m.unit \in HourUnits THEN Some(start_dt.v + 60 * m.value)
    ELSE IF m.unit \in MinuteUnits THEN Some(start_dt.v + m.value)
    ELSE end_dt

\* Lines 200-207: the end the free-form fallback gives; dur is
\* dateparser's result for the duration string minus datetime.min.
FallbackDurationEnd(start_dt, end_dt, dur) ==
    IF dur.some /\ dur.v > 0 THEN Some(start_dt.v + dur.v) ELSE end_dt

\* Mutant of DurationEnd: the duration is applied over a parsed end too.
DurationEnd_OverParsedEnd(start_dt, end_dt, duration_str, dp) ==
    IF start_dt.some /\ Truthy(duration_str)
    THEN LET m == duration_match(duration_str.s)
         IN  IF m.matched THEN StrictDurationEnd(start_dt, end_dt, m)
             ELSE FallbackDurationEnd(start_dt, end_dt, dp.dur)
    ELSE end_dt

\* Lines 189-207.
DurationEnd(start_dt, end_dt, duration_str, dp) ==
    IF start_dt.some /\ ~end_dt.some /\ Truthy(duration_str)
    THEN LET m == duration_match(duration_str.s)
         IN  IF m.matched THEN StrictDurationEnd(start_dt, end_dt, m)
             ELSE FallbackDurationEnd(start_dt, end_dt, dp.dur)
    ELSE end_dt

\* Mutant of DefaultEnd: no default, the end stays as it is.
DefaultEnd_Absent(start_dt, end_dt) == end_dt

\* Lines 209-210.
DefaultEnd(start_dt, end_dt) ==
    IF start_dt.some /\ ~end_dt.some THEN Some(start_dt.v + 60) ELSE end_dt

\* Mutant of Resolve: the missing start is not checked before returning.
Resolve_NoStartCheck(data, dp) ==
    LET title == Get(data, "title")
        start_dt == ParseStart(data, dp)
        end_dt == DefaultEnd(start_dt,
                      DurationEnd(start_dt, ParseEnd(data, dp),
                                  Get(data, "duration_str"), dp))
    IN  [title |-> IF Truthy(title) THEN title ELSE EventTitle,
         start_dt |-> start_dt, end_dt |-> end_dt,
         location |-> Get(data, "location"),
         reminder |-> Get(data, "reminder")]

\* Lines 158-218: the tuple returned for a decoded JSON object.
Resolve(data, dp) ==
    LET title == Get(data, "title")
        start_dt == ParseStart(data, dp)
        end_dt == DefaultEnd(start_dt,
                      DurationEnd(start_dt, ParseEnd(data, dp),
                                  Get(data, "duration_str"), dp))
    IN  IF ~start_dt.some THEN AllNone
        ELSE [title |-> IF Truthy(title) THEN title ELSE EventTitle,
              start_dt |-> start_dt, end_dt |-> end_dt,
              location |-> Get(data, "location"),
              reminder |-> Get(data, "reminder")]

\* ------------------------------------------- parse_event_from_text_gemini
\* The process-global response: unbound until a generation call has returned,
\* then the response of the request (owner) whose call returned last.
Unbound == [bound |-> FALSE, owner |-> 0]
BoundTo(r) == [bound |-> TRUE, owner |-> r]

NoText == [bound |-> FALSE, text |-> <<>>]
TextOf(t) == [bound |-> TRUE, text |-> t]

\* saw: the owner of the response object the except-handler read
\* (None: it read none; Some(0): the name was unbound).
NotRead == None

Returned(ret, resp, llm, saw) ==
    [exc |-> "none", ret |-> ret, response |-> resp, llm |-> llm, saw |-> saw]

Raised(exc, resp, llm, saw) ==
    [exc |-> exc, ret |-> AllNone, response |-> resp, llm |-> llm, saw |-> saw]

\* Lines 145-153: the handler of any other exception reads the global
\* response to log its candidates; the name is unbound until some call of
\* generate_content_async has returned.
ExceptException(resp, llm) ==
    IF resp.bound THEN Returned(AllNone, resp, llm, Some(resp.owner))
    ELSE Raised("NameError", resp, llm, Some(0))

\* Lines 155-218: after the try statement.
AfterTry(extracted_data, dp, resp, llm) ==
    IF ~extracted_data.truthy THEN Returned(AllNone, resp, llm, NotRead)
    ELSE IF extracted_data.kind # "object"
         THEN Raised("AttributeError", resp, llm, NotRead)
         ELSE Returned(Resolve(extracted_data, dp), resp, llm, NotRead)

\* Lines 125-137 and 142-144, 155-218: a response whose text is readable.
ParseText(out, resp) ==
    LET text == StripFences(strip(out.text))
        loaded == JsonLoads(text, out.doc)
    IN  IF ~loaded.ok THEN Returned(AllNone, resp, TextOf(text), NotRead)
        ELSE AfterTry(loaded.value, out.dp, resp, TextOf(text))

\* Lines 104-218, from the point where the awaited call ends with out, for
\* request r, with the globals as they are then.
parse_event_from_text_gemini(out, resp, llm, r) ==
    CASE out.kind = "error" -> ExceptException(resp, llm)
      [] out.kind = "blocked_exc" -> Returned(AllNone, resp, llm, NotRead)
      [] out.kind = "blocked_feedback" -> Returned(AllNone, BoundTo(r), llm, NotRead)
      [] out.kind = "no_text" -> ExceptException(BoundTo(r), llm)
      [] out.kind = "text" -> ParseText(out, BoundTo(r))

\* --------------------------------------------------------- handle_message
\* Lines 273-274: str.replace(" ", "+").
Encode(s) == [i \in 1..Len(s) |-> IF s[i] = " " THEN "+" ELSE s[i]]

NoLink == [text |-> <<>>, dates |-> <<0, 0>>, location |-> <<>>, reminders |-> None]

\* Lines 262-282.  strftime is kept as the wall-clock value itself.
gcal_link(ev) ==
    [text |-> Encode(ev.title.s),
     dates |-> <<ev.start_dt.v, ev.end_dt.v>>,
     location |-> IF Truthy(ev.location) THEN Encode(ev.location.s) ELSE <<>>,
     reminders |-> IF Truthy(ev.reminder) THEN Some(ev.reminder.n) ELSE None]

\* Lines 295-300.
ReminderLine(reminder) ==
    IF reminder = 60 THEN [n |-> 1, unit |-> "hour"]
    ELSE IF reminder >= 60 /\ reminder % 60 = 0
         THEN [n |-> reminder \div 60, unit |-> "hours"]
         ELSE [n |-> reminder, unit |-> "minutes"]

\* Lines 293-300: the reminder lines of the display message.
ReminderLines(reminder) ==
    IF Truthy(reminder) THEN <<ReminderLine(reminder.n)>> ELSE <<>>

\* Lines 259-313: what makes the try block raise: a missing end, a title or
\* location that is no string, a reminder that is no integer.
FormatRaises(ev) ==
    \/ ~ev.end_dt.some
    \/ ev.title.t # "str"
    \/ Truthy(ev.location) /\ ev.location.t # "str"
    \/ Truthy(ev.reminder) /\ ev.reminder.t # "int"

Reply(kind, p, link, lines) ==
    [reply |-> kind, exc |-> p.exc, ret |-> p.ret, link |-> link,
     lines |-> lines, saw |-> p.saw]

\* Lines 250-313: the handler from the awaited generation call on.  reply is
\* "none" (an exception left the handler), "generic" (couldn't understand),
\* "error" (something went wrong) or "event" (the calendar link).
handle_message(out, resp, llm, r) ==
    LET p == parse_event_from_text_gemini(out, resp, llm, r)
        reply ==
            IF p.exc # "none" THEN Reply("none", p, NoLink, <<>>)
            ELSE IF ~p.ret.start_dt.some THEN Reply("generic", p, NoLink, <<>>)
            ELSE IF FormatRaises(p.ret) THEN Reply("error", p, NoLink, <<>>)
            ELSE Reply("event", p, gcal_link(p.ret), ReminderLines(p.ret.reminder))
    IN  [reply |-> reply, response |-> p.response, llm |-> p.llm]

\* ------------------------------------------------------------- the inputs
\* What the generation service and dateparser can answer for one request.
NoDp == [start |-> None, end |-> None, dur |-> None]

Missing == [t |-> "missing", s |-> <<>>, n |-> 0]

Keys == {"title", "start_time_str", "end_time_str", "duration_str", "location", "reminder"}

\* The JSON object with the fields of f that are not Missing.
MakeObject(f) == JObject([k \in {k \in Keys : f[k].t # "missing"} |-> f[k]])

TitleText == <<"A", " ", "b">>
StartText == <<"1", "5", ":", "0", "0">>
EndText == <<"1", "6", ":", "0", "0">>
LocationText == <<"R", "m", " ", "1">>

StartTime == 1000
EndTimes == {StartTime - 100, StartTime + 100}

\* str(n) for the numbers of the duration strings.
RECURSIVE DigitStr(_)
DigitStr(n) ==
    IF n < 10 THEN <<DigitChars[n + 1]>>
    ELSE DigitStr(n \div 10) \o <<DigitChars[(n % 10) + 1]>>

upper(s) ==
    [i \in 1..Len(s) |->
        IF \E c \in {"H", "O", "U", "R", "M", "I", "N", "T", "E", "S"} : LowerChar(c) = s[i]
        THEN CHOOSE c \in {"H", "O", "U", "R", "M", "I", "N", "T", "E", "S"} : LowerChar(c) = s[i]
        ELSE s[i]]

UnitWords == {UnitAlternatives[i] : i \in 1..Len(UnitAlternatives)}

\* The numbers of the duration strings: the small ones and a two-digit one.
DurValues == (0..MaxDurValue) \cup {45}

\* "<integer> <unit>": with or without a space, singular or plural, lower
\* or upper case.
StrictDurations ==
    {DigitStr(n) \o sep \o w \o pl :
        n \in DurValues, sep \in {<<>>, <<" ">>},
        w \in UnitWords \cup {upper(u) : u \in UnitWords},
        pl \in {<<>>, <<"s">>}}

\* Strings the strict pattern does not match at their start: "-5 minutes",
\* "1.5 h", "soon".
FreeDurations ==
    { <<"-", "5", " ", "m", "i", "n", "u", "t", "e", "s">>,
      <<"1", ".", "5", " ", "h">>,
      <<"s", "o", "o", "n">> }

\* What dateparser may make of a free-form duration, minus datetime.min.
FreeDeltas == {None, Some(-5), Some(0), Some(30)}

\* A field value paired with dateparser's answer for it (None where the
\* code does not ask).
StartChoices ==
    {<<Missing, None>>, <<JNull, None>>, <<JStr(<<>>), None>>,
     <<JStr(StartText), None>>, <<JStr(StartText), Some(StartTime)>>}

EndChoices ==
    {<<Missing, None>>, <<JStr(<<>>), None>>, <<JStr(EndText), None>>}
    \cup {<<JStr(EndText), Some(t)>> : t \in EndTimes}

DurationChoices ==
    {<<Missing, None>>, <<JNull, None>>, <<JStr(<<>>), None>>}
    \cup {<<JStr(d), None>> : d \in StrictDurations}
    \cup {<<JStr(d), x>> : d \in FreeDurations, x \in FreeDeltas}

TitleChoices == {Missing, JStr(<<>>), JStr(TitleText)}
LocationChoices == {Missing, JStr(LocationText)}
ReminderChoices == {Missing} \cup {JInt(30 * k) : k \in 0..MaxReminderHalfHours}

TextOutcome(text, doc, dp) == [kind |-> "text", text |-> text, doc |-> doc, dp |-> dp]

EventOutcome(text, ti, st, en, du, lo, re) ==
    TextOutcome(text,
        MakeObject([title |-> ti, start_time_str |-> st[1], end_time_str |-> en[1],
                    duration_str |-> du[1], location |-> lo, reminder |-> re]),
        [start |-> st[2], end |-> en[2], dur |-> du[2]])


NL == <<"\n">>

\* The raw texts: a document alone, padded with whitespace, in a fence with
\* and without the json tag, with one side of the fence only; and texts that
\* are no JSON: prose, prose before a document, nothing, prose in a fence.
DocumentTexts ==
    { <<"J">>,
      <<" ", "J", "\n">>,
      FenceJson \o NL \o <<"J">> \o NL \o Fence,
      Fence \o NL \o <<"J">> \o NL \o Fence,
      FenceJson \o NL \o <<"J">>,
      <<"J">> \o NL \o Fence }

ProseTexts ==
    { <<"x">>, <<"x", " ", "J">>, <<>>, FenceJson \o NL \o <<"x">> \o NL \o Fence }

\* Decoded documents that are no object.
OtherDocuments ==
    { JOther("array", TRUE), JOther("array", FALSE), JOther("string", TRUE),
      JOther("number", TRUE), JOther("number", FALSE), JOther("null", FALSE) }

\* A few objects: a full event, one without a start, one whose start
\* dateparser rejects, one with a reminder of 0 and of 120 minutes, one whose
\* title is a number, the empty object.
SampleObjects ==
    { EventOutcome(<<"J">>, JStr(TitleText), st, <<Missing, None>>,
                   <<JStr(<<"3", "0", " ", "m", "i", "n">>), None>>, lo, re) :
        st \in {<<Missing, None>>, <<JStr(StartText), None>>,
                <<JStr(StartText), Some(StartTime)>>},
        lo \in {Missing}, re \in {Missing, JInt(120)} }
    \cup { EventOutcome(<<"J">>, ti, <<JStr(StartText), Some(StartTime)>>,
                        <<Missing, None>>, <<Missing, None>>, Missing, Missing) :
             ti \in {JInt(5)} }
    \cup { TextOutcome(<<"J">>, JObject(<<>>), NoDp) }

HandlerOutcomes ==
    {TextOutcome(t, o.doc, o.dp) : t \in DocumentTexts, o \in SampleObjects}
    \cup {TextOutcome(t, d, NoDp) : t \in DocumentTexts, d \in OtherDocuments}
    \cup {TextOutcome(t, JOther("null", FALSE), NoDp) : t \in ProseTexts}
    \cup {[kind |-> k, text |-> <<>>, doc |-> JOther("null", FALSE), dp |-> NoDp] :
             k \in {"blocked_feedback", "no_text"}}

RaiseOutcomes ==
    {[kind |-> k, text |-> <<>>, doc |-> JOther("null", FALSE), dp |-> NoDp] :
        k \in {"error", "blocked_exc"}}

\* ---------------------------------------------------------------- actions
Pending == [kind |-> "pending", text |-> <<>>, doc |-> JOther("null", FALSE), dp |-> NoDp]

NoReply ==
    [reply |-> "none", exc |-> "none", ret |-> AllNone, link |-> NoLink,
     lines |-> <<>>, saw |-> NotRead]

Init ==
    /\ pc = [r \in Requests |-> "idle"]
    /\ outcome = [r \in Requests |-> Pending]
    /\ result = [r \in Requests |-> NoReply]
    /\ calls = [r \in Requests |-> 0]
    /\ response = Unbound
    /\ llm_output_text = NoText

\* Lines 241-250: an update arrives.  One without text is ignored; otherwise
\* the handler goes up to the awaited generate_content_async call.
Receive(r) ==
    /\ pc[r] = "idle"
    /\ \E has_text \in BOOLEAN :
          IF has_text
          THEN /\ pc' = [pc EXCEPT ![r] = "awaiting"]
               /\ calls' = [calls EXCEPT ![r] = @ + 1]
          ELSE /\ pc' = [pc EXCEPT ![r] = "ignored"]
               /\ calls' = calls
    /\ UNCHANGED <<outcome, result, response, llm_output_text>>

\* Lines 113-313: the awaited call of request r ends with out, and the
\* handler runs to its end (it has no other point where it reads or writes
\* the globals).
Finish(r, out) ==
    LET h == handle_message(out, response, llm_output_text, r)
    IN  /\ pc' = [pc EXCEPT ![r] = IF h.reply.exc = "none" THEN "done" ELSE "crashed"]
        /\ outcome' = [outcome EXCEPT ![r] = out]
        /\ result' = [result EXCEPT ![r] = h.reply]
        /\ response' = h.response
        /\ llm_output_text' = h.llm
        /\ calls' = calls

\* The awaited call raises: a transport or service error, or a
\* BlockedPromptException.
GenerateRaises(r) ==
    /\ pc[r] = "awaiting"
    /\ \E out \in RaiseOutcomes : Finish(r, out)

\* The awaited call returns a response.
GenerateReturns(r) ==
    /\ pc[r] = "awaiting"
    /\ \E out \in HandlerOutcomes : Finish(r, out)

\* The awaited call returns an unfenced JSON object of the six fields, any
\* combination of them.
GenerateReturnsObject(r) ==
    /\ pc[r] = "awaiting"
    /\ \E ti \in TitleChoices, st \in StartChoices, en \in EndChoices,
          du \in DurationChoices, lo \in LocationChoices, re \in ReminderChoices :
          Finish(r, EventOutcome(<<"J">>, ti, st, en, du, lo, re))

Next == \E r \in Requests : Receive(r) \/ GenerateRaises(r) \/ GenerateReturns(r)

Spec == Init /\ [][Next]_vars

\* One request answered by a JSON object, over every combination of fields.
NextResolve == Receive(1) \/ GenerateReturnsObject(1)

SpecResolve == Init /\ [][NextResolve]_vars

Finished(r) == pc[r] \in {"done", "crashed"}

\* ------------------------------------------------------------- the claims
Field(r, key) == Get(outcome[r].doc, key)
Absent(r, key) == ~Truthy(Field(r, key))

\* The start and the end dateparser resolved for request r.
StartOf(r) == ParseStart(outcome[r].doc, outcome[r].dp)
EndOf(r) == ParseEnd(outcome[r].doc, outcome[r].dp)

\* C1: whenever the generation call raises a transport or service error,
\* on the first request as on any other, no exception leaves the handler,
\* parse_event_from_text_gemini returns five absent values, the service was
\* called once, and the reply is the generic "couldn't understand" message.
C1_TransportErrorGenericReply ==
    \A r \in Requests :
        Finished(r) /\ outcome[r].kind = "error" =>
            /\ result[r].exc = "none"
            /\ result[r].ret = AllNone
            /\ result[r].reply = "generic"
            /\ calls[r] = 1

\* The stripped and unfenced text is no JSON object: it does not decode, or
\* it decodes to a value that is no mapping.
NotAJsonObject(out) ==
    LET loaded == JsonLoads(StripFences(strip(out.text)), out.doc)
    IN  ~loaded.ok \/ loaded.value.kind # "object"

\* C2: a response text that is no JSON object after trimming and fence
\* stripping is Malformed: no exception leaves the handler and the reply is
\* the generic message.
C2_NonObjectIsMalformed ==
    \A r \in Requests :
        Finished(r) /\ outcome[r].kind = "text" /\ NotAJsonObject(outcome[r]) =>
            /\ result[r].exc = "none"
            /\ result[r].reply = "generic"

\* The delta the duration string of request r parses to is zero or
\* negative, by the strict pattern or by the free-form fallback.
NonPositiveDuration(r) ==
    LET m == duration_match(Field(r, "duration_str").s)
    IN  /\ Truthy(Field(r, "duration_str"))
        /\ IF m.matched THEN m.value <= 0
           ELSE outcome[r].dp.dur.some /\ outcome[r].dp.dur.v <= 0

\* C3: with a valid start and no resolved end, a duration whose parsed delta
\* is not positive is ignored: the end is start + 1 hour.
C3_NonPositiveDurationIgnored ==
    \A r \in Requests :
        pc[r] = "done" /\ StartOf(r).some /\ ~EndOf(r).some /\ NonPositiveDuration(r) =>
            result[r].ret.end_dt = Some(StartOf(r).v + 60)

\* A JSON document in a fence with a closing fence, the opening one with or
\* without the json tag.
Fenced(body) ==
    {FenceJson \o NL \o body \o NL \o Fence, Fence \o NL \o body \o NL \o Fence}

\* C4: a valid JSON text in a markdown fence is parsed to the same result
\* as the same text without the fence.
C4_FenceTransparent ==
    \A r1, r2 \in Requests :
        /\ Finished(r1) /\ Finished(r2)
        /\ outcome[r1].kind = "text" /\ outcome[r2].kind = "text"
        /\ outcome[r1].doc = outcome[r2].doc /\ outcome[r1].dp = outcome[r2].dp
        /\ outcome[r2].text = <<"J">>
        /\ outcome[r1].text \in Fenced(<<"J">>)
        => /\ result[r1].exc = result[r2].exc
           /\ result[r1].ret = result[r2].ret
           /\ result[r1].reply = result[r2].reply

\* d is "<N> <word>" for a word of ws, in any letter case, with or without
\* the space.
HasForm(d, N, ws) ==
    \E sep \in {<<>>, <<" ">>}, w \in ws : lower(d) = DigitStr(N) \o sep \o w

HourWords == {<<"h", "o", "u", "r">>, <<"h", "o", "u", "r", "s">>, <<"h", "r">>, <<"h">>}
MinuteWords ==
    {<<"m", "i", "n", "u", "t", "e">>, <<"m", "i", "n", "u", "t", "e", "s">>,
     <<"m", "i", "n">>, <<"m">>}

\* C5: with a valid start and no resolved end, a duration "<N> hour(s)/hr/h"
\* gives end = start + N hours and "<N> minute(s)/min/m" gives
\* end = start + N minutes.
C5_StrictDurationApplied ==
    \A r \in Requests : \A N \in DurValues :
        pc[r] = "done" /\ StartOf(r).some /\ ~EndOf(r).some
        /\ Field(r, "duration_str").t = "str" =>
            /\ HasForm(Field(r, "duration_str").s, N, HourWords) =>
                   result[r].ret.end_dt = Some(StartOf(r).v + 60 * N)
            /\ HasForm(Field(r, "duration_str").s, N, MinuteWords) =>
                   result[r].ret.end_dt = Some(StartOf(r).v + N)

C5_Witness ==
    \E r \in Requests :
        /\ pc[r] = "done" /\ StartOf(r).some /\ ~EndOf(r).some
        /\ Truthy(Field(r, "end_time_str"))
        /\ Field(r, "duration_str") = JStr(<<"4", "5", " ", "H", "R">>)
        /\ result[r].ret.end_dt = Some(StartTime + 45 * 60)
        /\ result[r].reply = "event"

\* C6: with a valid start and neither an end string nor a duration string,
\* the end is start + 1 hour; and a result that has a start has an end.
C6_DefaultOneHour ==
    \A r \in Requests :
        pc[r] = "done" =>
            /\ StartOf(r).some /\ Absent(r, "end_time_str") /\ Absent(r, "duration_str") =>
                   /\ result[r].ret.start_dt = StartOf(r)
                   /\ result[r].ret.end_dt = Some(StartOf(r).v + 60)
            /\ result[r].ret.start_dt.some => result[r].ret.end_dt.some

C6_Witness ==
    \E r \in Requests :
        /\ pc[r] = "done" /\ StartOf(r).some
        /\ Absent(r, "end_time_str") /\ Absent(r, "duration_str")
        /\ result[r].ret.end_dt = Some(StartTime + 60)
        /\ result[r].reply = "event"

\* C7: with no start_time_str (missing, null or empty), whatever the other
\* fields, the five outputs are absent and the reply is the generic message,
\* with no calendar link.
C7_NoStartTime ==
    \A r \in Requests :
        Finished(r) /\ outcome[r].kind = "text" /\ outcome[r].doc.kind = "object"
        /\ Absent(r, "start_time_str") =>
            /\ result[r].exc = "none"
            /\ result[r].ret = AllNone
            /\ result[r].reply = "generic"
            /\ result[r].link = NoLink

C7_Witness ==
    \E r \in Requests :
        /\ pc[r] = "done" /\ "start_time_str" \notin DOMAIN outcome[r].doc.obj
        /\ Truthy(Field(r, "title")) /\ EndOf(r).some
        /\ Truthy(Field(r, "duration_str")) /\ Truthy(Field(r, "location"))
        /\ Truthy(Field(r, "reminder"))
        /\ result[r].reply = "generic"

\* The reminder line the claim gives for R minutes.
ClaimedReminderLine(R) ==
    IF R = 60 THEN [n |-> 1, unit |-> "hour"]
    ELSE IF R % 60 = 0 THEN [n |-> R \div 60, unit |-> "hours"]
         ELSE [n |-> R, unit |-> "minutes"]

\* C8: for every present integer reminder R of a resolved event, the message
\* has exactly one reminder line: "1 hour before" for 60, "N hours before"
\* for another multiple of 60, "R minutes before" otherwise.
C8_ReminderLine ==
    \A r \in Requests :
        pc[r] = "done" /\ result[r].reply = "event" /\ Field(r, "reminder").t = "int" =>
            result[r].lines = <<ClaimedReminderLine(Field(r, "reminder").n)>>

\* What the handler answers to the outcome of request r in a process that
\* has handled nothing else.
Isolated(r) == handle_message(outcome[r], Unbound, NoText, r).reply

\* C9: the reply to a message depends on that message and its outcome only,
\* and the handler reads no response object left by another request.
C9_RequestsIndependent ==
    \A r \in Requests :
        Finished(r) =>
            /\ result[r] = Isolated(r)
            /\ result[r].saw.some => result[r].saw.v \in {0, r}

\* C10: when the start and the end both parse, the end is the parsed end,
\* whatever the duration string and also when it lies before the start, and
\* the reply is the event with its link.
C10_ParsedEndKept ==
    \A r \in Requests :
        pc[r] = "done" /\ StartOf(r).some /\ EndOf(r).some =>
            /\ result[r].ret.start_dt = StartOf(r)
            /\ result[r].ret.end_dt = EndOf(r)
            /\ result[r].reply = "event"
            /\ result[r].link.dates = <<StartOf(r).v, EndOf(r).v>>

C10_Witness ==
    \E r \in Requests :
        /\ pc[r] = "done" /\ StartOf(r).some /\ EndOf(r).some
        /\ EndOf(r).v < StartOf(r).v
        /\ Field(r, "duration_str") = JStr(<<"2", " ", "h", "o", "u", "r", "s">>)
        /\ result[r].ret.end_dt = Some(StartTime - 100)
        /\ result[r].reply = "event"

====
